---- MODULE Spec2Model ----
(***************************************************************************)
(* Production lot sizing: wagner_whitin, lot_for_lot and                   *)
(* fixed_order_quantity of production_planning.py, called one after the    *)
(* other on the same demand and cost parameters, as main() calls them.     *)
(* Quantities and costs are whole numbers (production_plan is an integer   *)
(* array).  Indices are the source's 0-based indices.                      *)
(***************************************************************************)
EXTENDS Integers, FiniteSets, Sequences, TLC

VARIABLES demand, setup_cost, holding_cost, eoq_arg,
          pc, cost, f, last_production, production_plan,
          i, j, total_cost, total_holding, inventory, eoq,
          ww_result, lfl_result, foq_result

vars == <<demand, setup_cost, holding_cost, eoq_arg,
          pc, cost, f, last_production, production_plan,
          i, j, total_cost, total_holding, inventory, eoq,
          ww_result, lfl_result, foq_result>>

inputs == <<demand, setup_cost, holding_cost, eoq_arg>>

\* Bounds of the explored inputs.
MaxN == 3
MaxD == 3
MaxS == 3
MaxH == 2
MaxQ == 2

\* np.inf of the cost matrix; cells below the diagonal keep it and are never read.
Inf == 1000000

\* The eoq parameter: <<>> when the caller leaves it out (None), <<q>> for a
\* supplied quantity q.
None == <<>>

\* len(demand)
n == Cardinality(DOMAIN demand)

\* sum(demand[lo:hi + 1])
RECURSIVE SumRange(_, _, _)
SumRange(a, lo, hi) ==
    IF hi < lo THEN 0 ELSE a[hi] + SumRange(a, lo, hi - 1)

\* max(demand)
MaxOf(a) == CHOOSE m \in {a[t] : t \in DOMAIN a} : \A t \in DOMAIN a : a[t] <= m

\* np.zeros(n)
Zeros(len) == [t \in 0..(len - 1) |-> 0]

\* The result slots before the call and after a failure or a return.
NotCalled == [status |-> "not_called"]
Raised(exc) == [status |-> "raised", exception |-> exc]
Returned(c, p) == [status |-> "returned", cost |-> c, plan |-> p]

(***************************************************************************)
(* wagner_whitin                                                           *)
(***************************************************************************)

\* The same loop with the holding cost of demand[jj] alone, cumulative_holding
\* not carried from one jj to the next.
RECURSIVE CostRowNoCarry(_, _, _, _, _, _, _, _)
CostRowNoCarry(row, d, ii, jj, len, cumulative_holding, s, h) ==
    IF jj >= len THEN row
    ELSE IF ii = jj
         THEN CostRowNoCarry([row EXCEPT ![jj] = s], d, ii, jj + 1, len,
                             cumulative_holding, s, h)
         ELSE LET periods_held == jj - ii
                  ch == d[jj] * periods_held * h
              IN  CostRowNoCarry([row EXCEPT ![jj] = s + ch], d, ii, jj + 1, len, ch, s, h)

\* Row i of the cost matrix: the inner loop over jj = i..len-1, carrying
\* cumulative_holding.
RECURSIVE CostRowFrom(_, _, _, _, _, _, _, _)
CostRowFrom(row, d, ii, jj, len, cumulative_holding, s, h) ==
    IF jj >= len THEN row
    ELSE IF ii = jj
         THEN CostRowFrom([row EXCEPT ![jj] = s], d, ii, jj + 1, len,
                          cumulative_holding, s, h)
         ELSE LET periods_held == jj - ii
                  ch == cumulative_holding + d[jj] * periods_held * h
              IN  CostRowFrom([row EXCEPT ![jj] = s + ch], d, ii, jj + 1, len, ch, s, h)

CostRow(row, d, ii, len, s, h) == CostRowFrom(row, d, ii, ii, len, 0, s, h)

\* The scan of column jj replacing on <= instead of <.
RECURSIVE ScanLE(_, _, _, _, _)
ScanLE(c, ff, jj, ii, best) ==
    IF ii > jj THEN best
    ELSE LET candidate_cost == ff[ii - 1] + c[ii][jj]
         IN  IF candidate_cost <= best[1]
             THEN ScanLE(c, ff, jj, ii + 1, <<candidate_cost, ii>>)
             ELSE ScanLE(c, ff, jj, ii + 1, best)

\* The inner loop of the recurrence for column jj: ii scans 1..jj in increasing
\* order; best is <<f[jj], last_production[jj]>> so far.
RECURSIVE Scan(_, _, _, _, _)
Scan(c, ff, jj, ii, best) ==
    IF ii > jj THEN best
    ELSE LET candidate_cost == ff[ii - 1] + c[ii][jj]
         IN  IF candidate_cost < best[1]
             THEN Scan(c, ff, jj, ii + 1, <<candidate_cost, ii>>)
             ELSE Scan(c, ff, jj, ii + 1, best)

\* The lot with the slice ending one period early: sum(demand[prod_period:j])
PlanQuantityExclusive(d, prod_period, jj) == SumRange(d, prod_period, jj - 1)
\* production_plan[prod_period] = sum(demand[prod_period:j + 1])
PlanQuantity(d, prod_period, jj) == SumRange(d, prod_period, jj)

\* The loop variable left on the production period: j = prod_period
NextJSame(prod_period) == prod_period
\* j after one iteration of the backtracking loop: j = prod_period - 1
NextJ(prod_period) == prod_period - 1

\* n = len(demand); cost = np.full((n, n), np.inf)
WWCall ==
    /\ pc = "ww_call"
    /\ cost' = [r \in 0..(n - 1) |-> [c \in 0..(n - 1) |-> Inf]]
    /\ i' = 0
    /\ pc' = "ww_cost"
    /\ UNCHANGED <<inputs, f, last_production, production_plan, j, total_cost,
                   total_holding, inventory, eoq, ww_result, lfl_result, foq_result>>

\* One iteration of "for i in range(n)": row i of the cost matrix.
WWCostRow ==
    /\ pc = "ww_cost"
    /\ i < n
    /\ cost' = [cost EXCEPT ![i] = CostRow(cost[i], demand, i, n, setup_cost, holding_cost)]
    /\ i' = i + 1
    /\ UNCHANGED <<inputs, pc, f, last_production, production_plan, j, total_cost,
                   total_holding, inventory, eoq, ww_result, lfl_result, foq_result>>

\* f = np.zeros(n); last_production = np.zeros(n, dtype=int)
WWInitDP ==
    /\ pc = "ww_cost"
    /\ i >= n
    /\ f' = Zeros(n)
    /\ last_production' = Zeros(n)
    /\ j' = 0
    /\ i' = 0
    /\ pc' = "ww_dp"
    /\ UNCHANGED <<inputs, cost, production_plan, total_cost,
                   total_holding, inventory, eoq, ww_result, lfl_result, foq_result>>

\* One iteration of "for j in range(n)": f[j] and last_production[j].
WWForward ==
    /\ pc = "ww_dp"
    /\ j < n
    /\ LET best == Scan(cost, f, j, 1, <<cost[0][j], 0>>)
       IN  /\ f' = [f EXCEPT ![j] = best[1]]
           /\ last_production' = [last_production EXCEPT ![j] = best[2]]
    /\ j' = j + 1
    /\ UNCHANGED <<inputs, pc, cost, production_plan, i, total_cost,
                   total_holding, inventory, eoq, ww_result, lfl_result, foq_result>>

\* production_plan = np.zeros(n, dtype=int); j = n - 1
WWInitBacktrack ==
    /\ pc = "ww_dp"
    /\ j >= n
    /\ production_plan' = Zeros(n)
    /\ j' = n - 1
    /\ pc' = "ww_back"
    /\ UNCHANGED <<inputs, cost, f, last_production, i, total_cost,
                   total_holding, inventory, eoq, ww_result, lfl_result, foq_result>>

\* One iteration of "while j >= 0".
WWBacktrack ==
    /\ pc = "ww_back"
    /\ j >= 0
    /\ LET prod_period == last_production[j]
       IN  /\ production_plan' =
                 [production_plan EXCEPT ![prod_period] = PlanQuantity(demand, prod_period, j)]
           /\ j' = NextJ(prod_period)
    /\ UNCHANGED <<inputs, pc, cost, f, last_production, i, total_cost,
                   total_holding, inventory, eoq, ww_result, lfl_result, foq_result>>

\* return f[n - 1], production_plan; f[-1] of an empty array raises IndexError.
WWReturn ==
    /\ pc = "ww_back"
    /\ j < 0
    /\ ww_result' = IF n = 0 THEN Raised("IndexError")
                    ELSE Returned(f[n - 1], production_plan)
    /\ pc' = "lfl_call"
    /\ cost' = <<>>
    /\ f' = <<>>
    /\ last_production' = <<>>
    /\ production_plan' = <<>>
    /\ j' = 0
    /\ UNCHANGED <<inputs, i, total_cost, total_holding, inventory, eoq,
                   lfl_result, foq_result>>

(***************************************************************************)
(* lot_for_lot                                                             *)
(***************************************************************************)

\* The test with >= in place of >: a zero-demand period gets a setup too.
ProducesOrZero(d) == d >= 0
\* "if demand[i] > 0": does period i get a setup and a lot?
Produces(d) == d > 0

\* n = len(demand); total_cost = 0; production_plan = np.zeros(n, dtype=int)
LFLCall ==
    /\ pc = "lfl_call"
    /\ total_cost' = 0
    /\ production_plan' = Zeros(n)
    /\ i' = 0
    /\ pc' = "lfl_loop"
    /\ UNCHANGED <<inputs, cost, f, last_production, j, total_holding, inventory,
                   eoq, ww_result, lfl_result, foq_result>>

\* One iteration of "for i in range(n)".
LFLStep ==
    /\ pc = "lfl_loop"
    /\ i < n
    /\ IF Produces(demand[i])
       THEN /\ total_cost' = total_cost + setup_cost
            /\ production_plan' = [production_plan EXCEPT ![i] = demand[i]]
       ELSE UNCHANGED <<total_cost, production_plan>>
    /\ i' = i + 1
    /\ UNCHANGED <<inputs, pc, cost, f, last_production, j, total_holding, inventory,
                   eoq, ww_result, lfl_result, foq_result>>

\* return total_cost, production_plan
LFLReturn ==
    /\ pc = "lfl_loop"
    /\ i >= n
    /\ lfl_result' = Returned(total_cost, production_plan)
    /\ pc' = "foq_call"
    /\ total_cost' = 0
    /\ production_plan' = <<>>
    /\ i' = 0
    /\ UNCHANGED <<inputs, cost, f, last_production, j, total_holding, inventory,
                   eoq, ww_result, foq_result>>

(***************************************************************************)
(* fixed_order_quantity                                                    *)
(***************************************************************************)

\* int(np.sqrt(x)) of a non-negative x: the largest k with k * k <= x.
ISqrt(x) == CHOOSE k \in 0..x : k * k <= x /\ (k + 1) * (k + 1) > x

\* eoq = max(eoq, max(demand))
RaiseToMaxDemand(q, d) == IF MaxOf(d) > q THEN MaxOf(d) ELSE q

\* The branch "if eoq is None": the exception it raises, or the quantity.
\* total_demand / n divides by zero for n = 0, ... / holding_cost for
\* holding_cost = 0; np.sqrt of a negative number is nan and int(nan) raises.
ComputeEOQ(d, len, s, h) ==
    LET total_demand == SumRange(d, 0, len - 1)
        num == 2 * total_demand * s
        den == len * h
    IN  IF len = 0 \/ h = 0 THEN Raised("ZeroDivisionError")
        ELSE IF (num < 0 /\ den > 0) \/ (num > 0 /\ den < 0) THEN Raised("ValueError")
        ELSE LET absnum == IF num < 0 THEN -num ELSE num
                 absden == IF den < 0 THEN -den ELSE den
             IN  [status |-> "value",
                  value |-> RaiseToMaxDemand(ISqrt(absnum \div absden), d)]

\* n, total_demand, eoq, then production_plan, inventory, total_cost, total_holding.
FOQCall ==
    /\ pc = "foq_call"
    /\ LET q == IF eoq_arg = None
                THEN ComputeEOQ(demand, n, setup_cost, holding_cost)
                ELSE [status |-> "value", value |-> eoq_arg[1]]
       IN  IF q.status = "raised"
           THEN /\ foq_result' = q
                /\ pc' = "done"
                /\ UNCHANGED <<eoq, production_plan, inventory, total_cost,
                               total_holding, i>>
           ELSE /\ eoq' = q.value
                /\ production_plan' = Zeros(n)
                /\ inventory' = 0
                /\ total_cost' = 0
                /\ total_holding' = 0
                /\ i' = 0
                /\ pc' = "foq_loop"
                /\ UNCHANGED foq_result
    /\ UNCHANGED <<inputs, cost, f, last_production, j, ww_result, lfl_result>>

\* One iteration of "for i in range(n)".
FOQStep ==
    /\ pc = "foq_loop"
    /\ i < n
    /\ LET produce == inventory < demand[i]
           stocked == IF produce THEN inventory + eoq ELSE inventory
       IN  /\ production_plan' = IF produce
                                 THEN [production_plan EXCEPT ![i] = eoq]
                                 ELSE production_plan
           /\ total_cost' = IF produce THEN total_cost + setup_cost ELSE total_cost
           /\ inventory' = stocked - demand[i]
           /\ total_holding' = total_holding + (stocked - demand[i]) * holding_cost
    /\ i' = i + 1
    /\ UNCHANGED <<inputs, pc, cost, f, last_production, j, eoq,
                   ww_result, lfl_result, foq_result>>

\* total_cost += total_holding; return total_cost, production_plan
FOQReturn ==
    /\ pc = "foq_loop"
    /\ i >= n
    /\ foq_result' = Returned(total_cost + total_holding, production_plan)
    /\ pc' = "done"
    /\ UNCHANGED <<inputs, cost, f, last_production, production_plan, i, j,
                   total_cost, total_holding, inventory, eoq, ww_result, lfl_result>>

(***************************************************************************)
(* The callers' inputs and the run                                         *)
(***************************************************************************)

\* Every call the model explores: demand of 0..MaxN periods, and parameters
\* on both sides of the preconditions.
Init ==
    /\ \E len \in 0..MaxN : demand \in [0..(len - 1) -> (-1)..MaxD]
    /\ setup_cost \in 0..MaxS
    /\ holding_cost \in (-1)..MaxH
    /\ eoq_arg \in {None} \cup {<<q>> : q \in 1..MaxQ}
    /\ pc = "ww_call"
    /\ cost = <<>>
    /\ f = <<>>
    /\ last_production = <<>>
    /\ production_plan = <<>>
    /\ i = 0
    /\ j = 0
    /\ total_cost = 0
    /\ total_holding = 0
    /\ inventory = 0
    /\ eoq = 0
    /\ ww_result = NotCalled
    /\ lfl_result = NotCalled
    /\ foq_result = NotCalled

Next ==
    \/ WWCall
    \/ WWCostRow
    \/ WWInitDP
    \/ WWForward
    \/ WWInitBacktrack
    \/ WWBacktrack
    \/ WWReturn
    \/ LFLCall
    \/ LFLStep
    \/ LFLReturn
    \/ FOQCall
    \/ FOQStep
    \/ FOQReturn

Spec == Init /\ [][Next]_vars

\* The interpreter runs the program to its end.
FairSpec == Spec /\ WF_vars(Next)

(***************************************************************************)
(* Preconditions of the policy functions                                   *)
(***************************************************************************)

NonNegativeDemand == \A t \in DOMAIN demand : demand[t] >= 0
ValidDemand == n >= 1 /\ NonNegativeDemand
\* wagner_whitin and lot_for_lot: holding_cost = 0 is permitted.
ValidWW == ValidDemand /\ setup_cost > 0 /\ holding_cost >= 0
\* All three functions: holding_cost is a divisor in fixed_order_quantity.
ValidInput == ValidDemand /\ setup_cost > 0 /\ holding_cost > 0

Results == {ww_result, lfl_result, foq_result}
IsReturned(r) == r.status = "returned"
Total(a) == SumRange(a, 0, Cardinality(DOMAIN a) - 1)

(***************************************************************************)
(* C1: optimality against brute force                                      *)
(***************************************************************************)

\* setup_cost + sum over k in a+1..b of demand[k] * (k - a) * holding_cost
RECURSIVE HoldingOf(_, _)
HoldingOf(a, b) ==
    IF b <= a THEN 0 ELSE demand[b] * (b - a) * holding_cost + HoldingOf(a, b - 1)
IntervalCost(a, b) == setup_cost + HoldingOf(a, b)

\* The last period of the interval that starts at a, in the partition whose
\* interval starts are the set starts.
IntervalEnd(starts, a) ==
    IF \E b \in starts : b > a
    THEN (CHOOSE b \in starts : b > a /\ \A c \in starts : c > a => b <= c) - 1
    ELSE n - 1

RECURSIVE PartitionCostOver(_, _)
PartitionCostOver(starts, rest) ==
    IF rest = {} THEN 0
    ELSE LET a == CHOOSE x \in rest : TRUE
         IN  IntervalCost(a, IntervalEnd(starts, a)) + PartitionCostOver(starts, rest \ {a})
PartitionCost(starts) == PartitionCostOver(starts, starts)

\* The 2^(n-1) partitions of 0..n-1 into contiguous intervals, by their starts.
Partitions == {{0} \cup cuts : cuts \in SUBSET (1..(n - 1))}
BruteForceMin ==
    CHOOSE m \in {PartitionCost(P) : P \in Partitions} :
        \A P \in Partitions : m <= PartitionCost(P)

\* C1: for valid input the cost wagner_whitin returns is the minimum, over all
\* partitions of 0..n-1 into contiguous intervals, of the sum of interval costs.
C1_OptimalCost ==
    (ValidWW /\ IsReturned(ww_result)) => ww_result.cost = BruteForceMin

\* A run where the optimum is neither one lot for the horizon nor a lot per period.
C1_Witness ==
    /\ ValidWW /\ IsReturned(ww_result) /\ n >= 3 /\ holding_cost > 0
    /\ ww_result.cost < IntervalCost(0, n - 1)
    /\ ww_result.cost < n * setup_cost
    /\ ww_result.cost = BruteForceMin

(***************************************************************************)
(* C2: the optimum against the heuristics                                  *)
(***************************************************************************)

\* C2: for valid input the cost of wagner_whitin is at most the cost of
\* lot_for_lot and at most the cost of fixed_order_quantity on the same inputs.
C2_CostAtMostHeuristics ==
    (ValidInput /\ IsReturned(ww_result)) =>
        /\ IsReturned(lfl_result) => ww_result.cost <= lfl_result.cost
        /\ (eoq_arg = None /\ IsReturned(foq_result)) => ww_result.cost <= foq_result.cost

(***************************************************************************)
(* C3: conservation                                                        *)
(***************************************************************************)

Conserves(r) == IsReturned(r) => Total(r.plan) = Total(demand)

\* C3 as stated: for every policy function and every valid input,
\* sum(plan) == sum(demand).
C3_ConservationAll == ValidInput => \A r \in Results : Conserves(r)

\* C3 amended: wagner_whitin and lot_for_lot conserve; the plan of
\* fixed_order_quantity sums to a whole number of orders of the order quantity,
\* and with the computed quantity to at least sum(demand).
C3_Conservation ==
    ValidInput =>
        /\ Conserves(ww_result)
        /\ Conserves(lfl_result)
        /\ IsReturned(foq_result) =>
              /\ \E k \in 0..n : Total(foq_result.plan) = k * eoq
              /\ eoq_arg = None => Total(foq_result.plan) >= Total(demand)

\* A run where the fixed quantity overshoots and the other two plans conserve.
C3_Witness ==
    /\ ValidInput /\ eoq_arg = None /\ n >= 2
    /\ IsReturned(ww_result) /\ IsReturned(lfl_result) /\ IsReturned(foq_result)
    /\ Total(demand) > 0
    /\ Total(ww_result.plan) = Total(demand)
    /\ Total(lfl_result.plan) = Total(demand)
    /\ Total(foq_result.plan) > Total(demand)

(***************************************************************************)
(* C4: feasibility                                                         *)
(***************************************************************************)

Feasible(r) ==
    IsReturned(r) =>
        \A k \in DOMAIN demand : SumRange(r.plan, 0, k) >= SumRange(demand, 0, k)

\* C4: for every policy function, fixed_order_quantity with a computed or a
\* supplied quantity included, cumulative production through every period is at
\* least cumulative demand, and the running inventory of fixed_order_quantity
\* is never negative after a period.
C4_Feasibility ==
    ValidInput =>
        /\ \A r \in Results : Feasible(r)
        /\ pc = "foq_loop" => inventory >= 0

(***************************************************************************)
(* C5, C6: rejected inputs                                                 *)
(***************************************************************************)

\* C5: called with an empty demand sequence, none of the three functions
\* returns a (cost, plan) result.
C5_EmptyDemandFails ==
    n = 0 => \A r \in Results : ~IsReturned(r)

PreconditionViolated ==
    \/ \E t \in DOMAIN demand : demand[t] < 0
    \/ setup_cost <= 0
    \/ holding_cost < 0

\* C6: with a negative demand value, setup_cost <= 0 or holding_cost < 0, no
\* policy function returns a (cost, plan) result.
C6_PreconditionsRejected ==
    PreconditionViolated => \A r \in Results : ~IsReturned(r)

(***************************************************************************)
(* C7: tie-break of the forward recurrence                                 *)
(***************************************************************************)

\* f[ii - 1] + C[ii][jj], with f[-1] = 0
Candidate(ii, jj) == (IF ii = 0 THEN 0 ELSE f[ii - 1]) + cost[ii][jj]
MinCandidate(jj) ==
    CHOOSE m \in {Candidate(ii, jj) : ii \in 0..jj} :
        \A ii \in 0..jj : m <= Candidate(ii, jj)
Minimizers(jj) == {ii \in 0..jj : Candidate(ii, jj) = MinCandidate(jj)}
Earliest(jj) == CHOOSE ii \in Minimizers(jj) : \A k \in Minimizers(jj) : ii <= k

\* The columns the forward recurrence has finished.
Decided == IF pc = "ww_dp" THEN 0..(j - 1)
           ELSE IF pc = "ww_back" THEN 0..(n - 1) ELSE {}

\* The plan that starts every interval at the earliest minimizer, from n-1 back.
RECURSIVE EarliestPlan(_, _)
EarliestPlan(plan, jj) ==
    IF jj < 0 THEN plan
    ELSE EarliestPlan([plan EXCEPT ![Earliest(jj)] = SumRange(demand, Earliest(jj), jj)],
                      Earliest(jj) - 1)

\* C7: after the forward recurrence, last_production[jj] is the smallest ii in
\* 0..jj that attains the minimum of f[ii-1] + C[ii][jj], and the plan the
\* backtracking assembles is the one of these earliest starts.
C7_TieBreak ==
    /\ \A jj \in Decided :
          /\ f[jj] = MinCandidate(jj)
          /\ last_production[jj] = Earliest(jj)
    /\ (pc = "ww_back" /\ j < 0) => production_plan = EarliestPlan(Zeros(n), n - 1)

\* A finished recurrence with a column where two starts tie for the minimum.
C7_Witness ==
    /\ pc = "ww_back" /\ j < 0 /\ ValidWW /\ holding_cost > 0
    /\ \E jj \in 0..(n - 1) :
          /\ Cardinality(Minimizers(jj)) >= 2
          /\ last_production[jj] = Earliest(jj)
          /\ \E k \in Minimizers(jj) : k > last_production[jj]

(***************************************************************************)
(* C8: totality                                                            *)
(***************************************************************************)

AllReturned ==
    pc = "done" /\ IsReturned(ww_result) /\ IsReturned(lfl_result) /\ IsReturned(foq_result)

\* One iteration of the backtracking loop covers last_production[j]..j and
\* moves j strictly down, to just below the interval.
BacktrackDescends ==
    (pc = "ww_back" /\ j >= 0) =>
        /\ 0 <= last_production[j] /\ last_production[j] <= j
        /\ j' = last_production[j] - 1
        /\ j' < j
        /\ \A t \in (j' + 1)..j : t # last_production[j] => production_plan'[t] = 0

\* C8: for valid input every policy function terminates with a result; every
\* iteration of the backtracking loop strictly decreases j, the loop starts at
\* n-1 and ends at -1, so the intervals it visits tile 0..n-1.
C8_Totality ==
    /\ (pc = "ww_call" /\ ValidInput) ~> AllReturned
    /\ [][BacktrackDescends]_vars
    /\ [][(pc = "ww_dp" /\ pc' = "ww_back") => j' = n - 1]_vars
    /\ [](pc = "ww_back" => (j >= -1 /\ j <= n - 1))

\* A finished run whose backtracking loop visited more than one interval.
C8_Witness ==
    /\ AllReturned /\ ValidInput /\ n >= 3
    /\ Cardinality({t \in DOMAIN demand : ww_result.plan[t] > 0}) >= 2

(***************************************************************************)
(* C9: lot for lot                                                         *)
(***************************************************************************)

\* C9: lot_for_lot returns plan[t] = demand[t] for every period and a cost of
\* setup_cost times the number of periods with demand[t] > 0, whatever
\* holding_cost is.
C9_LotForLot ==
    (NonNegativeDemand /\ IsReturned(lfl_result)) =>
        /\ lfl_result.plan = demand
        /\ lfl_result.cost =
              setup_cost * Cardinality({t \in DOMAIN demand : demand[t] > 0})

\* A returned lot-for-lot plan over demand with a zero period and a positive one.
C9_Witness ==
    /\ IsReturned(lfl_result) /\ ValidInput
    /\ \E t \in DOMAIN demand : demand[t] = 0
    /\ \E t \in DOMAIN demand : demand[t] > 0
    /\ lfl_result.cost < n * setup_cost
    /\ lfl_result.plan = demand

(***************************************************************************)
(* C10: the returned cost is the cost of the returned plan                 *)
(***************************************************************************)

\* setup_cost for every period with a lot, holding_cost on every period's
\* end-of-period inventory.
RECURSIVE InventoryCost(_, _)
InventoryCost(plan, t) ==
    IF t < 0 THEN 0
    ELSE (SumRange(plan, 0, t) - SumRange(demand, 0, t)) * holding_cost
         + InventoryCost(plan, t - 1)
PlanCost(plan) ==
    setup_cost * Cardinality({t \in DOMAIN plan : plan[t] > 0})
    + InventoryCost(plan, n - 1)

\* C10: for valid input the cost wagner_whitin returns equals the cost of the
\* plan it returns, re-evaluated period by period.
C10_CostOfPlan ==
    (ValidWW /\ IsReturned(ww_result)) => ww_result.cost = PlanCost(ww_result.plan)

====
